---- MODULE Spec2Model ----
(***************************************************************************)
(* Model of backend/generate_menu_sql.py: the function                     *)
(* generate_customizations(item_id, category_type) and the module-level    *)
(* driver that prints its result for every entry of the static item list.  *)
(*                                                                         *)
(* Text that the program builds by concatenation (item ids, group ids,     *)
(* option ids, option codes, formatted prices) is a sequence of            *)
(* one-character strings, so that str.replace, prefixes and collisions are *)
(* decided character by character.  Text that is only copied into the      *)
(* output (display names, column types, category codes) is a TLA+ string.  *)
(* Prices are held in hundredths (3.99 is 399) and rendered by Fmt2.       *)
(***************************************************************************)
EXTENDS Integers, Sequences, FiniteSets, TLC

VARIABLES items, pc, i, item_id, category_type, remove_opts, addon_opts,
          clean_id, group_id, sql, j, out, blocks, returned, prev_out, run

vars == <<items, pc, i, item_id, category_type, remove_opts, addon_opts,
          clean_id, group_id, sql, j, out, blocks, returned, prev_out, run>>

(***************************************************************************)
(* Bounds of the model.                                                    *)
(***************************************************************************)
\* number of chunks an enumerated item identifier is built from
MaxChunks == 3
\* length of an enumerated list of calls
MaxItems == 2
\* number of times the program is run one after the other
MaxRuns == 2

(***************************************************************************)
(* Literals of the source.                                                 *)
(***************************************************************************)
ITEM_ == <<"I","T","E","M","_">>
CG_ == <<"C","G","_">>
CO_ == <<"C","O","_">>
SPICE == <<"S","P","I","C","E">>
REMOVE == <<"R","E","M","O","V","E">>
ADDON == <<"A","D","D","O","N">>
EXTRA == <<"E","X","T","R","A">>
DRINK == <<"D","R","I","N","K">>
Us == <<"_">>

spice_opts ==
  << << <<"M","I","L","D">>, "Mild", 0, 1, 1 >>,
     << <<"S","P","I","C","Y">>, "Spicy (harissa instead of hot honey)", 0, 0, 2 >> >>

base_remove_opts ==
  << << <<"C","H","E","E","S","E">>, "No cheese", 0, 0, 1 >>,
     << <<"G","A","R","L","I","C">>, "No garlic", 0, 0, 2 >>,
     << <<"S","A","L","A","D">>, "No salad (fries only)", 0, 0, 3 >>,
     << <<"H","O","N","E","Y">>, "No hot honey", 0, 0, 4 >> >>

fries_opt == << <<"F","R","I","E","S">>, "No fries on top", 0, 0, 5 >>

\* lines 12-20: a fresh list on every call, FRIES appended for 'RB'
RemoveOpts(cat) ==
  IF cat = "RB" THEN Append(base_remove_opts, fries_opt)
                ELSE base_remove_opts

addon_GS ==
  << << <<"C","H","I","C","K","E","N">>, "Chicken topping on fries", 300, 0, 1 >>,
     << <<"B","R","I","S","K","E","T">>, "Brisket topping on fries", 400, 0, 2 >>,
     << <<"M","I","X","E","D">>, "Mixed topping on fries", 500, 0, 3 >> >>

addon_SW ==
  << << <<"M","O","Z","Z">>, "Extra shredded mozzarella in wrap", 100, 0, 1 >>,
     << <<"C","H","I","C","K","E","N">>, "Chicken topping on fries", 300, 0, 2 >>,
     << <<"B","R","I","S","K","E","T">>, "Brisket topping on fries", 400, 0, 3 >>,
     << <<"M","I","X","E","D">>, "Mixed topping on fries", 500, 0, 4 >> >>

addon_LF_RB ==
  << << <<"C","H","I","C","K","E","N">>, "Extra chicken", 399, 0, 1 >>,
     << <<"B","R","I","S","K","E","T">>, "Extra brisket", 499, 0, 2 >>,
     << <<"M","I","X","E","D">>, "Extra mixed", 599, 0, 3 >> >>

\* a plausible slip: the last branch tests one category instead of two
AddonOptsOnlyLF(cat) ==
  IF cat = "GS" THEN addon_GS
  ELSE IF cat = "SW" THEN addon_SW
  ELSE IF cat \in {"LF"} THEN addon_LF_RB
  ELSE <<>>

\* lines 22-41: the if/elif chain on category_type
AddonOpts(cat) ==
  IF cat = "GS" THEN addon_GS
  ELSE IF cat = "SW" THEN addon_SW
  ELSE IF cat \in {"LF", "RB"} THEN addon_LF_RB
  ELSE <<>>

\* a plausible slip: a copied tuple keeps the sort order of its original
extra_opts_copied ==
  << << <<"H","A","L","L","O","U","M","I">>, "Grilled Halloumi Sticks", 650, 0, 1 >>,
     << <<"P","O","P","P","E","R","S">>, "Cheesy Pizza Poppers", 650, 0, 1 >> >>

extra_opts ==
  << << <<"H","A","L","L","O","U","M","I">>, "Grilled Halloumi Sticks", 650, 0, 1 >>,
     << <<"P","O","P","P","E","R","S">>, "Cheesy Pizza Poppers", 650, 0, 2 >> >>

drink_opts ==
  << << <<"1">>, "Shani Can 330ml", 250, 0, 1 >>,
     << <<"2">>, "Rubicon Guava Can 330ml", 250, 0, 2 >>,
     << <<"3">>, "Rubicon Mango Can 330ml", 250, 0, 3 >>,
     << <<"4">>, "Rubicon Passion Fruit Can 330ml", 250, 0, 4 >>,
     << <<"5">>, "Palestine Cola Can 330ml", 250, 0, 5 >>,
     << <<"6">>, "Palestine Cola (Sugar Free) Can 330ml", 250, 0, 6 >>,
     << <<"7">>, "Palestine Lemon and Lime Can 330ml", 250, 0, 7 >>,
     << <<"8">>, "Palestine Orange Can 330ml", 250, 0, 8 >>,
     << <<"9">>, "Bottled Water 350ml", 250, 0, 9 >>,
     << <<"1","0">>, "Capri Sun 350ml", 200, 0, 10 >> >>

\* lines 105-126: the static list the driver iterates
StaticItems ==
  << << <<"I","T","E","M","_","M","P","_","0","0","1">>, "RB" >>,
     << <<"I","T","E","M","_","M","P","_","0","0","2">>, "LF" >>,
     << <<"I","T","E","M","_","M","P","_","0","0","3">>, "GS" >>,
     << <<"I","T","E","M","_","M","P","_","0","0","4">>, "SW" >>,
     << <<"I","T","E","M","_","S","W","_","0","0","1">>, "SW" >>,
     << <<"I","T","E","M","_","S","W","_","0","0","2">>, "SW" >>,
     << <<"I","T","E","M","_","S","W","_","0","0","3">>, "SW" >>,
     << <<"I","T","E","M","_","L","F","_","0","0","1">>, "LF" >>,
     << <<"I","T","E","M","_","L","F","_","0","0","2">>, "LF" >>,
     << <<"I","T","E","M","_","L","F","_","0","0","3">>, "LF" >>,
     << <<"I","T","E","M","_","R","B","_","0","0","1">>, "RB" >>,
     << <<"I","T","E","M","_","R","B","_","0","0","2">>, "RB" >>,
     << <<"I","T","E","M","_","R","B","_","0","0","3">>, "RB" >> >>

(***************************************************************************)
(* String helpers.                                                         *)
(***************************************************************************)
IsPrefix(p, s) == Len(p) <= Len(s) /\ SubSeq(s, 1, Len(p)) = p

Drop(s, n) == SubSeq(s, n + 1, Len(s))

\* a plausible slip: the identifier is cut to its trailing number
CleanIdNumberOnly(s) == Drop(s, Len(s) - 3)

\* line 64: str.replace('ITEM_', ''), every non-overlapping occurrence of
\* ITEM_ found in one left-to-right scan is removed
RECURSIVE CleanId(_)
CleanId(s) ==
  IF Len(s) < Len(ITEM_) THEN s
  ELSE IF IsPrefix(ITEM_, s) THEN CleanId(Drop(s, Len(ITEM_)))
  ELSE <<Head(s)>> \o CleanId(Tail(s))

Digit(d) == CASE d = 0 -> "0" [] d = 1 -> "1" [] d = 2 -> "2" [] d = 3 -> "3"
              [] d = 4 -> "4" [] d = 5 -> "5" [] d = 6 -> "6" [] d = 7 -> "7"
              [] d = 8 -> "8" [] d = 9 -> "9"

RECURSIVE Decimal(_)
Decimal(n) == IF n < 10 THEN <<Digit(n)>>
              ELSE Decimal(n \div 10) \o <<Digit(n % 10)>>

\* the format specification {price:.2f}, on a price held in hundredths
Fmt2(cents) ==
  Decimal(cents \div 100) \o <<".">> \o <<Digit((cents \div 10) % 10), Digit(cents % 10)>>

\* lines 67, 74, 82, 89, 96: f"CG_{clean_id}_<KIND>"
GroupId(clean, kind) == CG_ \o clean \o Us \o kind

\* a plausible slip: the option id is built without the group kind
OptIdNoKind(clean, kind, code) == CO_ \o clean \o Us \o code

\* lines 70, 77, 85, 92, 99: f"CO_{clean_id}_<KIND>_{code}"
OptId(clean, kind, code) == CO_ \o clean \o Us \o kind \o Us \o code

\* the INSERT INTO customization_groups statement, by column
GroupRow(gid, item, name, type, required, order) ==
  [stmt |-> "customization_groups", group_id |-> gid, item_id |-> item,
   name |-> name, type |-> type, is_required |-> required, sort_order |-> order]

\* the INSERT INTO customization_options statement, by column
OptionRow(clean, kind, gid, opt) ==
  [stmt |-> "customization_options", option_id |-> OptId(clean, kind, opt[1]),
   group_id |-> gid, name |-> opt[2], additional_price |-> Fmt2(opt[3]),
   is_default |-> opt[4], sort_order |-> opt[5]]

\* the three kinds of line the driver prints itself
HeaderLine == [stmt |-> "header", text |-> "-- Generated Customizations"]
BlankLine == [stmt |-> "blank"]
CommentLine(item) == [stmt |-> "comment", text |-> "-- Customizations for ", item_id |-> item]

(***************************************************************************)
(* Inputs.  The program itself runs on StaticItems; the statements about   *)
(* generate_customizations as a function are checked on enumerated         *)
(* arguments as well.                                                      *)
(***************************************************************************)
\* the four known category codes and one unrecognised code
Categories == {"GS", "SW", "LF", "RB", "XX"}

Chunks == {ITEM_, <<"I","T">>, <<"E","M","_">>, <<"A">>}

RECURSIVE IdsOf(_)
IdsOf(n) == IF n = 1 THEN Chunks
            ELSE IdsOf(n - 1) \cup {a \o c : a \in IdsOf(n - 1), c \in Chunks}

\* non-empty identifiers, with ITEM_ in front, further in, twice, split
\* around another occurrence, or absent
ItemIds == IdsOf(MaxChunks)

ListIds == {ITEM_ \o <<"A">>, ITEM_ \o <<"B">>}

RECURSIVE ListsOf(_)
ListsOf(n) ==
  IF n = 1 THEN {<< <<id, cat>> >> : id \in ListIds, cat \in Categories}
  ELSE ListsOf(n - 1) \cup
       {Append(l, <<id, cat>>) : l \in ListsOf(n - 1), id \in ListIds, cat \in Categories}

(***************************************************************************)
(* The state before the first statement of the module runs.                *)
(***************************************************************************)
Fresh ==
  /\ pc = "start"
  /\ i = 1
  /\ item_id = <<>>
  /\ category_type = ""
  /\ remove_opts = <<>>
  /\ addon_opts = <<>>
  /\ clean_id = <<>>
  /\ group_id = <<>>
  /\ sql = <<>>
  /\ j = 1
  /\ out = <<>>
  /\ blocks = <<>>

Init ==
  /\ items = StaticItems
  /\ Fresh
  /\ returned = {}
  /\ prev_out = <<>>
  /\ run = 1

\* one call of generate_customizations on enumerated arguments
InitFn ==
  /\ items \in {<< <<id, cat>> >> : id \in ItemIds, cat \in Categories}
  /\ Fresh
  /\ returned = {}
  /\ prev_out = <<>>
  /\ run = 1

\* the static list, or a short list of calls on enumerated arguments
InitCalls ==
  /\ items \in {StaticItems} \cup ListsOf(MaxItems)
  /\ Fresh
  /\ returned = {}
  /\ prev_out = <<>>
  /\ run = 1

(***************************************************************************)
(* The driver, lines 128-131.                                              *)
(***************************************************************************)
\* line 128: print("-- Generated Customizations")
PrintHeader ==
  /\ pc = "start"
  /\ out' = Append(out, HeaderLine)
  /\ pc' = "for"
  /\ UNCHANGED <<items, i, item_id, category_type, remove_opts, addon_opts,
                 clean_id, group_id, sql, j, blocks, returned, prev_out, run>>

\* a plausible slip: the newline in front of the comment is dropped
ForItemNoNewline ==
  /\ pc = "for"
  /\ i <= Len(items)
  /\ item_id' = items[i][1]
  /\ category_type' = items[i][2]
  /\ out' = out \o <<CommentLine(items[i][1])>>
  /\ pc' = "call"
  /\ UNCHANGED <<items, i, remove_opts, addon_opts, clean_id, group_id, sql, j,
                 blocks, returned, prev_out, run>>

\* lines 129-130: the loop takes the next pair and prints
\* f"\n-- Customizations for {item_id}", an empty line and the comment
ForItem ==
  /\ pc = "for"
  /\ i <= Len(items)
  /\ item_id' = items[i][1]
  /\ category_type' = items[i][2]
  /\ out' = out \o <<BlankLine, CommentLine(items[i][1])>>
  /\ pc' = "call"
  /\ UNCHANGED <<items, i, remove_opts, addon_opts, clean_id, group_id, sql, j,
                 blocks, returned, prev_out, run>>

\* line 129: the list is exhausted and the program ends
Finish ==
  /\ pc = "for"
  /\ i > Len(items)
  /\ pc' = "done"
  /\ UNCHANGED <<items, i, item_id, category_type, remove_opts, addon_opts,
                 clean_id, group_id, sql, j, out, blocks, returned, prev_out, run>>

\* the operator starts the program again: a new process, nothing of the
\* previous one is left but what it printed
Rerun ==
  /\ pc = "done"
  /\ run < MaxRuns
  /\ run' = run + 1
  /\ prev_out' = out
  /\ pc' = "start"
  /\ i' = 1
  /\ item_id' = <<>>
  /\ category_type' = ""
  /\ remove_opts' = <<>>
  /\ addon_opts' = <<>>
  /\ clean_id' = <<>>
  /\ group_id' = <<>>
  /\ sql' = <<>>
  /\ j' = 1
  /\ out' = <<>>
  /\ blocks' = <<>>
  /\ UNCHANGED <<items, returned>>

(***************************************************************************)
(* generate_customizations, lines 2-102.                                   *)
(***************************************************************************)
\* a plausible slip: the remove list is built once and shared by all calls,
\* so the append for 'RB' changes it for every later call
CallSharedRemoveOpts ==
  /\ pc = "call"
  /\ remove_opts' =
       LET shared == IF remove_opts = <<>> THEN base_remove_opts ELSE remove_opts
       IN  IF category_type = "RB" THEN Append(shared, fries_opt) ELSE shared
  /\ addon_opts' = AddonOpts(category_type)
  /\ sql' = <<>>
  /\ clean_id' = CleanId(item_id)
  /\ pc' = "spice"
  /\ UNCHANGED <<items, i, item_id, category_type, group_id, j, out, blocks,
                 returned, prev_out, run>>

\* a plausible slip: the statement list is created once, outside the
\* function, and every call appends to it
CallKeepsSql ==
  /\ pc = "call"
  /\ remove_opts' = RemoveOpts(category_type)
  /\ addon_opts' = AddonOpts(category_type)
  /\ sql' = sql
  /\ clean_id' = CleanId(item_id)
  /\ pc' = "spice"
  /\ UNCHANGED <<items, i, item_id, category_type, group_id, j, out, blocks,
                 returned, prev_out, run>>

\* lines 6-64: the catalogs of this call, the empty statement list and the
\* clean id
Call ==
  /\ pc = "call"
  /\ remove_opts' = RemoveOpts(category_type)
  /\ addon_opts' = AddonOpts(category_type)
  /\ sql' = <<>>
  /\ clean_id' = CleanId(item_id)
  /\ pc' = "spice"
  /\ UNCHANGED <<items, i, item_id, category_type, group_id, j, out, blocks,
                 returned, prev_out, run>>

\* lines 67-68
SpiceGroup ==
  /\ pc = "spice"
  /\ group_id' = GroupId(clean_id, SPICE)
  /\ sql' = Append(sql, GroupRow(GroupId(clean_id, SPICE), item_id,
                                 "Spice Level", "single", 1, 1))
  /\ j' = 1
  /\ pc' = "spice_loop"
  /\ UNCHANGED <<items, i, item_id, category_type, remove_opts, addon_opts,
                 clean_id, out, blocks, returned, prev_out, run>>

\* lines 69-71
SpiceOption ==
  /\ pc = "spice_loop"
  /\ j <= Len(spice_opts)
  /\ sql' = Append(sql, OptionRow(clean_id, SPICE, group_id, spice_opts[j]))
  /\ j' = j + 1
  /\ UNCHANGED <<items, pc, i, item_id, category_type, remove_opts, addon_opts,
                 clean_id, group_id, out, blocks, returned, prev_out, run>>

\* lines 74-75
RemoveGroup ==
  /\ pc = "spice_loop"
  /\ j > Len(spice_opts)
  /\ group_id' = GroupId(clean_id, REMOVE)
  /\ sql' = Append(sql, GroupRow(GroupId(clean_id, REMOVE), item_id,
                                 "Remove Items", "multiple", 0, 2))
  /\ j' = 1
  /\ pc' = "remove_loop"
  /\ UNCHANGED <<items, i, item_id, category_type, remove_opts, addon_opts,
                 clean_id, out, blocks, returned, prev_out, run>>

\* lines 76-78
RemoveOption ==
  /\ pc = "remove_loop"
  /\ j <= Len(remove_opts)
  /\ sql' = Append(sql, OptionRow(clean_id, REMOVE, group_id, remove_opts[j]))
  /\ j' = j + 1
  /\ UNCHANGED <<items, pc, i, item_id, category_type, remove_opts, addon_opts,
                 clean_id, group_id, out, blocks, returned, prev_out, run>>

\* lines 81-83: only when addon_opts is not empty
AddonGroup ==
  /\ pc = "remove_loop"
  /\ j > Len(remove_opts)
  /\ addon_opts # <<>>
  /\ group_id' = GroupId(clean_id, ADDON)
  /\ sql' = Append(sql, GroupRow(GroupId(clean_id, ADDON), item_id,
                                 "Add-ons", "multiple", 0, 3))
  /\ j' = 1
  /\ pc' = "addon_loop"
  /\ UNCHANGED <<items, i, item_id, category_type, remove_opts, addon_opts,
                 clean_id, out, blocks, returned, prev_out, run>>

\* lines 84-86
AddonOption ==
  /\ pc = "addon_loop"
  /\ j <= Len(addon_opts)
  /\ sql' = Append(sql, OptionRow(clean_id, ADDON, group_id, addon_opts[j]))
  /\ j' = j + 1
  /\ UNCHANGED <<items, pc, i, item_id, category_type, remove_opts, addon_opts,
                 clean_id, group_id, out, blocks, returned, prev_out, run>>

\* a plausible slip: the group statement is put in front of the list
ExtraGroupInFront ==
  /\ \/ pc = "remove_loop" /\ j > Len(remove_opts) /\ addon_opts = <<>>
     \/ pc = "addon_loop" /\ j > Len(addon_opts)
  /\ group_id' = GroupId(clean_id, EXTRA)
  /\ sql' = <<GroupRow(GroupId(clean_id, EXTRA), item_id,
                       "Extras", "multiple", 0, 4)>> \o sql
  /\ j' = 1
  /\ pc' = "extra_loop"
  /\ UNCHANGED <<items, i, item_id, category_type, remove_opts, addon_opts,
                 clean_id, out, blocks, returned, prev_out, run>>

\* lines 89-90, reached from the remove loop when the Add-ons section is
\* skipped (line 81) and from the add-on loop otherwise
ExtraGroup ==
  /\ \/ pc = "remove_loop" /\ j > Len(remove_opts) /\ addon_opts = <<>>
     \/ pc = "addon_loop" /\ j > Len(addon_opts)
  /\ group_id' = GroupId(clean_id, EXTRA)
  /\ sql' = Append(sql, GroupRow(GroupId(clean_id, EXTRA), item_id,
                                 "Extras", "multiple", 0, 4))
  /\ j' = 1
  /\ pc' = "extra_loop"
  /\ UNCHANGED <<items, i, item_id, category_type, remove_opts, addon_opts,
                 clean_id, out, blocks, returned, prev_out, run>>

\* lines 91-93
ExtraOption ==
  /\ pc = "extra_loop"
  /\ j <= Len(extra_opts)
  /\ sql' = Append(sql, OptionRow(clean_id, EXTRA, group_id, extra_opts[j]))
  /\ j' = j + 1
  /\ UNCHANGED <<items, pc, i, item_id, category_type, remove_opts, addon_opts,
                 clean_id, group_id, out, blocks, returned, prev_out, run>>

\* a plausible slip: the last group keeps the sort order of the one it was
\* copied from
DrinkGroupCopiedOrder ==
  /\ pc = "extra_loop"
  /\ j > Len(extra_opts)
  /\ group_id' = GroupId(clean_id, DRINK)
  /\ sql' = Append(sql, GroupRow(GroupId(clean_id, DRINK), item_id,
                                 "Add a Drink", "single", 0, 4))
  /\ j' = 1
  /\ pc' = "drink_loop"
  /\ UNCHANGED <<items, i, item_id, category_type, remove_opts, addon_opts,
                 clean_id, out, blocks, returned, prev_out, run>>

\* lines 96-97
DrinkGroup ==
  /\ pc = "extra_loop"
  /\ j > Len(extra_opts)
  /\ group_id' = GroupId(clean_id, DRINK)
  /\ sql' = Append(sql, GroupRow(GroupId(clean_id, DRINK), item_id,
                                 "Add a Drink", "single", 0, 5))
  /\ j' = 1
  /\ pc' = "drink_loop"
  /\ UNCHANGED <<items, i, item_id, category_type, remove_opts, addon_opts,
                 clean_id, out, blocks, returned, prev_out, run>>

\* lines 98-100
DrinkOption ==
  /\ pc = "drink_loop"
  /\ j <= Len(drink_opts)
  /\ sql' = Append(sql, OptionRow(clean_id, DRINK, group_id, drink_opts[j]))
  /\ j' = j + 1
  /\ UNCHANGED <<items, pc, i, item_id, category_type, remove_opts, addon_opts,
                 clean_id, group_id, out, blocks, returned, prev_out, run>>

\* lines 102 and 131: the statements joined by newlines are returned and
\* printed; blocks and returned record what each call returned
Return ==
  /\ pc = "drink_loop"
  /\ j > Len(drink_opts)
  /\ out' = out \o sql
  /\ blocks' = Append(blocks, sql)
  /\ returned' = returned \cup {<<item_id, category_type, sql>>}
  /\ i' = i + 1
  /\ pc' = "for"
  /\ UNCHANGED <<items, item_id, category_type, remove_opts, addon_opts,
                 clean_id, group_id, sql, j, prev_out, run>>

Next ==
  \/ PrintHeader
  \/ ForItem
  \/ Finish
  \/ Rerun
  \/ Call
  \/ SpiceGroup
  \/ SpiceOption
  \/ RemoveGroup
  \/ RemoveOption
  \/ AddonGroup
  \/ AddonOption
  \/ ExtraGroup
  \/ ExtraOption
  \/ DrinkGroup
  \/ DrinkOption
  \/ Return

\* the program on its static list
Spec == Init /\ [][Next]_vars

\* generate_customizations on every enumerated pair of arguments
SpecFn == InitFn /\ [][Next]_vars

\* the program on its static list and on short enumerated lists
SpecCalls == InitCalls /\ [][Next]_vars

(***************************************************************************)
(* Reading the statements back.                                            *)
(***************************************************************************)
IsGroup(r) == r.stmt = "customization_groups"
IsOption(r) == r.stmt = "customization_options"

GroupRows(s) == SelectSeq(s, IsGroup)

Project(s, f(_)) == [k \in 1..Len(s) |-> f(s[k])]

SortOrderOf(r) == r.sort_order
NameOf(r) == r.name

\* the option statements that follow position q - 1 without interruption
RECURSIVE TakeOptions(_, _)
TakeOptions(s, q) ==
  IF q > Len(s) \/ ~IsOption(s[q]) THEN <<>>
  ELSE <<s[q]>> \o TakeOptions(s, q + 1)

GroupPos(s, name) == {p \in 1..Len(s) : IsGroup(s[p]) /\ s[p].name = name}

\* the option statements emitted right after the group statement `name`
OptionsAfter(s, name) ==
  IF GroupPos(s, name) = {} THEN <<>>
  ELSE TakeOptions(s, (CHOOSE p \in GroupPos(s, name) : TRUE) + 1)

\* the position of the last statement of kind `stmt` at or before q, or 0
RECURSIVE LastIdx(_, _, _)
LastIdx(s, q, stmt) ==
  IF q = 0 THEN 0
  ELSE IF s[q].stmt = stmt THEN q
  ELSE LastIdx(s, q - 1, stmt)

\* the identifier with a leading ITEM_ removed and nothing else
StripPrefix(s) == IF IsPrefix(ITEM_, s) THEN Drop(s, Len(ITEM_)) ELSE s

\* the option id that belongs to a group id and an option code
OptionIdFor(gid, code) == CO_ \o Drop(gid, Len(CG_)) \o Us \o code

InBody == pc \in {"spice", "spice_loop", "remove_loop", "addon_loop",
                  "extra_loop", "drink_loop"}

(***************************************************************************)
(* C1                                                                      *)
(***************************************************************************)
HasAddons(cat) == cat \in {"GS", "SW", "LF", "RB"}

KindOrder(cat) ==
  IF HasAddons(cat)
  THEN <<"Spice Level", "Remove Items", "Add-ons", "Extras", "Add a Drink">>
  ELSE <<"Spice Level", "Remove Items", "Extras", "Add a Drink">>

\* C1 as stated: every call emits 5 group rows when the category has an
\* Add-ons catalog and 4 otherwise, in the kind order Spice, Remove,
\* [Add-on], Extra, Drink, and their sort_order values in emission order are
\* 1..4 or 1..5 without a gap.
C1_ContiguousGroupOrders ==
  \A t \in returned :
    LET g == GroupRows(t[3]) IN
      /\ Len(g) = IF HasAddons(t[2]) THEN 5 ELSE 4
      /\ Project(g, NameOf) = KindOrder(t[2])
      /\ Project(g, SortOrderOf) = [k \in 1..Len(g) |-> k]

\* C1 amended: the number of group rows and the kind order are as stated,
\* and each kind carries its own fixed sort_order (Spice 1, Remove 2,
\* Add-on 3, Extra 4, Drink 5): 1..5 when the Add-ons group is emitted and
\* 1, 2, 4, 5 when it is not.
C1_FixedGroupOrders ==
  \A t \in returned :
    LET g == GroupRows(t[3]) IN
      /\ Len(g) = IF HasAddons(t[2]) THEN 5 ELSE 4
      /\ Project(g, NameOf) = KindOrder(t[2])
      /\ Project(g, SortOrderOf) =
           IF HasAddons(t[2]) THEN <<1, 2, 3, 4, 5>> ELSE <<1, 2, 4, 5>>

C1_Witness ==
  /\ \E t \in returned : t[2] = "XX" /\ Len(GroupRows(t[3])) = 4
  /\ pc = "done"

(***************************************************************************)
(* C3                                                                      *)
(***************************************************************************)
\* C3 as stated: inside the function the clean id is the item identifier
\* with a leading ITEM_ removed and every other character kept, the group
\* and option ids are built from it, and the item_id column of every group
\* row is the identifier as passed.
C3_OnlyPrefixStripped ==
  InBody =>
    /\ clean_id = StripPrefix(item_id)
    /\ \A k \in 1..Len(sql) :
         /\ IsGroup(sql[k]) =>
              /\ sql[k].item_id = item_id
              /\ IsPrefix(CG_ \o StripPrefix(item_id) \o Us, sql[k].group_id)
         /\ IsOption(sql[k]) =>
              IsPrefix(CO_ \o StripPrefix(item_id) \o Us, sql[k].option_id)

(***************************************************************************)
(* C4                                                                      *)
(***************************************************************************)
\* the Add-ons table of the specification: code, price as printed, order
AddonTable(cat) ==
  IF cat = "GS" THEN
    << << <<"C","H","I","C","K","E","N">>, <<"3",".","0","0">>, 1 >>,
       << <<"B","R","I","S","K","E","T">>, <<"4",".","0","0">>, 2 >>,
       << <<"M","I","X","E","D">>, <<"5",".","0","0">>, 3 >> >>
  ELSE IF cat = "SW" THEN
    << << <<"M","O","Z","Z">>, <<"1",".","0","0">>, 1 >>,
       << <<"C","H","I","C","K","E","N">>, <<"3",".","0","0">>, 2 >>,
       << <<"B","R","I","S","K","E","T">>, <<"4",".","0","0">>, 3 >>,
       << <<"M","I","X","E","D">>, <<"5",".","0","0">>, 4 >> >>
  ELSE IF cat \in {"LF", "RB"} THEN
    << << <<"C","H","I","C","K","E","N">>, <<"3",".","9","9">>, 1 >>,
       << <<"B","R","I","S","K","E","T">>, <<"4",".","9","9">>, 2 >>,
       << <<"M","I","X","E","D">>, <<"5",".","9","9">>, 3 >> >>
  ELSE <<>>

\* C4: the Add-ons group a call emits is the table entry of its category
\* code, whatever the item identifier: the listed codes, prices and orders
\* for GS, SW, LF and RB, and for any other code no Add-ons group row and no
\* option row outside the Spice, Remove, Extras and Drink groups.
C4_AddonsByCategory ==
  \A t \in returned :
    LET pos == GroupPos(t[3], "Add-ons")
        opts == OptionsAfter(t[3], "Add-ons")
        tab == AddonTable(t[2])
    IN  IF tab = <<>>
        THEN /\ pos = {}
             /\ \A q \in 1..Len(t[3]) :
                  IsOption(t[3][q]) =>
                    \E p \in 1..Len(t[3]) :
                      /\ IsGroup(t[3][p])
                      /\ t[3][p].group_id = t[3][q].group_id
                      /\ t[3][p].name \in {"Spice Level", "Remove Items",
                                           "Extras", "Add a Drink"}
        ELSE /\ Cardinality(pos) = 1
             /\ Len(opts) = Len(tab)
             /\ \A k \in 1..Len(tab) :
                  /\ opts[k].option_id =
                       OptionIdFor(t[3][CHOOSE p \in pos : TRUE].group_id, tab[k][1])
                  /\ opts[k].additional_price = tab[k][2]
                  /\ opts[k].sort_order = tab[k][3]

C4_Witness ==
  /\ \E t \in returned : t[2] = "SW" /\ Len(OptionsAfter(t[3], "Add-ons")) = 4
  /\ run = MaxRuns

(***************************************************************************)
(* C5                                                                      *)
(***************************************************************************)
RemoveCodes == << <<"C","H","E","E","S","E">>, <<"G","A","R","L","I","C">>,
                  <<"S","A","L","A","D">>, <<"H","O","N","E","Y">> >>

\* C5: at every position of the list the Remove group of a Rice Bowl item
\* has 5 options, the last being FRIES, 'No fries on top', 0.00, default 0,
\* order 5, and the Remove group of any other item has exactly CHEESE,
\* GARLIC, SALAD, HONEY, also when a Rice Bowl item was generated before it.
C5_FriesOnlyForRiceBowl ==
  \A k \in 1..Len(blocks) :
    LET pos == GroupPos(blocks[k], "Remove Items")
        opts == OptionsAfter(blocks[k], "Remove Items")
        gid == blocks[k][CHOOSE p \in pos : TRUE].group_id
    IN  /\ Cardinality(pos) = 1
        /\ Len(opts) = IF items[k][2] = "RB" THEN 5 ELSE 4
        /\ \A n \in 1..4 : opts[n].option_id = OptionIdFor(gid, RemoveCodes[n])
        /\ items[k][2] = "RB" =>
             /\ opts[5].option_id = OptionIdFor(gid, <<"F","R","I","E","S">>)
             /\ opts[5].name = "No fries on top"
             /\ opts[5].additional_price = <<"0",".","0","0">>
             /\ opts[5].is_default = 0
             /\ opts[5].sort_order = 5

C5_Witness ==
  \E k \in 2..Len(blocks) :
    /\ items[k - 1][2] = "RB"
    /\ items[k][2] # "RB"
    /\ Len(OptionsAfter(blocks[k], "Remove Items")) = 4
    /\ Len(OptionsAfter(blocks[k - 1], "Remove Items")) = 5

(***************************************************************************)
(* C6                                                                      *)
(***************************************************************************)
\* the number of options the specification gives each group
OptionCount(name, cat) ==
  CASE name = "Spice Level" -> 2
    [] name = "Remove Items" -> IF cat = "RB" THEN 5 ELSE 4
    [] name = "Add-ons" -> IF cat = "SW" THEN 4 ELSE 3
    [] name = "Extras" -> 2
    [] name = "Add a Drink" -> 10

\* C6: in every call the option rows that follow a group row carry the
\* sort_order values 1, 2, ..., N in emission order, N being the number of
\* options of that group for the category.
C6_DenseOptionOrders ==
  \A t \in returned :
    \A p \in 1..Len(t[3]) :
      IsGroup(t[3][p]) =>
        LET opts == TakeOptions(t[3], p + 1) IN
          /\ Len(opts) = OptionCount(t[3][p].name, t[2])
          /\ Project(opts, SortOrderOf) = [k \in 1..Len(opts) |-> k]

C6_Witness ==
  /\ \E t \in returned :
       /\ t[2] = "RB"
       /\ Len(OptionsAfter(t[3], "Remove Items")) = 5
       /\ Len(OptionsAfter(t[3], "Add a Drink")) = 10
  /\ pc = "for"

(***************************************************************************)
(* C7                                                                      *)
(***************************************************************************)
\* the statements so far are whole groups in kind order: a group row, then
\* only option rows of that group until the next group row
WholeGroups(s, cat) ==
  /\ Len(GroupRows(s)) <= Len(KindOrder(cat))
  /\ Project(GroupRows(s), NameOf) = SubSeq(KindOrder(cat), 1, Len(GroupRows(s)))
  /\ \A q \in 1..Len(s) :
       IsOption(s[q]) =>
         /\ \E p \in 1..(q - 1) :
              /\ IsGroup(s[p])
              /\ s[p].group_id = s[q].group_id
              /\ \A m \in (p + 1)..(q - 1) : IsOption(s[m])
         /\ \A p \in 1..Len(s) :
              (IsGroup(s[p]) /\ s[p].group_id = s[q].group_id) => p < q

\* a step leaves the statement list alone, empties it for a new call, or
\* adds one statement at its end
EmitsAtEnd ==
  \/ sql' = sql
  \/ sql' = <<>>
  \/ /\ Len(sql') = Len(sql) + 1
     /\ SubSeq(sql', 1, Len(sql)) = sql

\* C7: at every moment of a call the statements emitted so far are, in the
\* order Spice, Remove, Add-ons (when present), Extras, Drinks, a group row
\* followed by option rows of that group only, and every step emits at the
\* end: a group row precedes all its option rows and option rows of
\* different groups are never interleaved.
C7_EmissionOrder ==
  /\ [](InBody => WholeGroups(sql, category_type))
  /\ [][EmitsAtEnd]_vars

C7_Witness ==
  /\ pc = "extra_loop"
  /\ j = 2
  /\ category_type = "SW"
  /\ Len(sql) = 15

(***************************************************************************)
(* C8                                                                      *)
(***************************************************************************)
RECURSIVE CommentBlockBlank(_, _, _)
CommentBlockBlank(its, bl, n) ==
  IF n = 0 THEN <<>>
  ELSE CommentBlockBlank(its, bl, n - 1)
         \o <<CommentLine(its[n][1])>> \o bl[n] \o <<BlankLine>>

RECURSIVE BlankCommentBlock(_, _, _)
BlankCommentBlock(its, bl, n) ==
  IF n = 0 THEN <<>>
  ELSE BlankCommentBlock(its, bl, n - 1)
         \o <<BlankLine, CommentLine(its[n][1])>> \o bl[n]

\* one block per item, in list order, each the non-empty block of its item
BlockPerItem ==
  /\ Len(blocks) = Len(items)
  /\ \A k \in 1..Len(blocks) :
       /\ blocks[k] # <<>>
       /\ \A p \in 1..Len(blocks[k]) :
            /\ IsGroup(blocks[k][p]) \/ IsOption(blocks[k][p])
            /\ IsGroup(blocks[k][p]) => blocks[k][p].item_id = items[k][1]

\* C8 as stated: the finished output is the header line and then, for each
\* item in declared order and once per item, the comment line naming it, its
\* block, and a blank line.
C8_CommentBlockBlank ==
  pc = "done" =>
    /\ BlockPerItem
    /\ out = <<HeaderLine>> \o CommentBlockBlank(items, blocks, Len(items))

\* C8 amended: the finished output is the header line and then, for each
\* item in declared order and once per item, a blank line, the comment line
\* naming it, and its block; the blank line comes before the comment, and
\* nothing follows the block of the last item.
C8_BlankCommentBlock ==
  pc = "done" =>
    /\ BlockPerItem
    /\ out = <<HeaderLine>> \o BlankCommentBlock(items, blocks, Len(items))

C8_Witness ==
  /\ pc = "done"
  /\ Len(blocks) = Len(StaticItems)
  /\ out[2] = BlankLine
  /\ IsOption(out[Len(out)])

(***************************************************************************)
(* C9                                                                      *)
(***************************************************************************)
\* C9: a second run of the program prints what the first printed, and two
\* calls with the same item id and category return the same statements,
\* whatever was called before them.
C9_SameOutputEveryRun ==
  /\ (run > 1 /\ pc = "done") => out = prev_out
  /\ \A a \in returned : \A b \in returned :
       (a[1] = b[1] /\ a[2] = b[2]) => a[3] = b[3]

C9_Witness ==
  /\ run = 2
  /\ pc = "done"
  /\ items = StaticItems
  /\ Len(out) > Len(StaticItems)
  /\ out = prev_out

(***************************************************************************)
(* C2                                                                      *)
(***************************************************************************)
Distinct(s) == \A a \in 1..Len(s) : \A b \in 1..Len(s) : s[a] = s[b] => a = b

GroupIdOf(r) == r.group_id
OptionIdOf(r) == r.option_id

\* the option code: what follows CO_<clean_id>_<GROUPKIND>_ in the option id
CodeOf(r) == Drop(r.option_id, Len(r.group_id) + 1)

\* C2: in the finished output over the static list no group id occurs in
\* two group rows and no option id in two option rows; within one item the
\* group ids differ and within one group the option codes differ.
C2_UniqueIds ==
  pc = "done" =>
    /\ Distinct(Project(GroupRows(out), GroupIdOf))
    /\ Distinct(Project(SelectSeq(out, IsOption), OptionIdOf))
    /\ \A k \in 1..Len(blocks) :
         /\ Distinct(Project(GroupRows(blocks[k]), GroupIdOf))
         /\ \A p \in 1..Len(blocks[k]) :
              IsGroup(blocks[k][p]) =>
                Distinct(Project(TakeOptions(blocks[k], p + 1), CodeOf))

C2_Witness ==
  /\ pc = "done"
  /\ Len(blocks) = Len(StaticItems)
  /\ \E a \in 1..Len(items) : \E b \in 1..Len(items) :
       a # b /\ items[a][2] = items[b][2]
  /\ Len(GroupRows(out)) = 5 * Len(StaticItems)

(***************************************************************************)
(* C10                                                                     *)
(***************************************************************************)
GroupKinds == {SPICE, REMOVE, ADDON, EXTRA, DRINK}

\* gid is CG_<clean>_<KIND> and oid is CO_<clean>_<KIND>_<CODE> for the same
\* clean id and kind and a non-empty code
SameCleanIdAndKind(gid, oid) ==
  \E kind \in GroupKinds :
    /\ Len(gid) >= Len(CG_) + 1 + Len(kind)
    /\ LET clean == SubSeq(gid, Len(CG_) + 1, Len(gid) - Len(kind) - 1) IN
         /\ gid = CG_ \o clean \o Us \o kind
         /\ IsPrefix(CO_ \o clean \o Us \o kind \o Us, oid)
         /\ Len(oid) > Len(gid) + 1

\* C10: in the finished output every option row names the group of the
\* group row emitted last before it, that group row names the item of the
\* comment line printed last before it, and the option id is
\* CO_<clean_id>_<GROUPKIND>_<CODE> for the clean id and kind of the group
\* id; so no option row names a group without a group row.
C10_OptionBelongsToLastGroup ==
  pc = "done" =>
    \A q \in 1..Len(out) :
      IsOption(out[q]) =>
        LET p == LastIdx(out, q, "customization_groups")
            c == LastIdx(out, q, "comment")
        IN  /\ 0 < c
            /\ c < p
            /\ out[q].group_id = out[p].group_id
            /\ out[p].item_id = out[c].item_id
            /\ out[c].item_id =
                 items[Cardinality({m \in 1..c : out[m].stmt = "comment"})][1]
            /\ SameCleanIdAndKind(out[p].group_id, out[q].option_id)

C10_Witness ==
  /\ pc = "done"
  /\ run = 1
  /\ Cardinality({q \in 1..Len(out) : IsOption(out[q])}) > 10 * Len(StaticItems)
====
